---- MODULE Spec2Model ----
(***************************************************************************)
(* Model of the Swisstination recommendation engine                        *)
(* (src/apps/recommendation.py) and of the routers that call it.           *)
(*                                                                         *)
(* Numbers.  Scores are Python floats; here a score is an exact rational   *)
(* [num, den] with den > 0 and scores are compared by cross                *)
(* multiplication.  Identifiers: the destinasi table holds integer ids,    *)
(* the artifact and every result hold their str() form.                    *)
(***************************************************************************)
EXTENDS Integers, Sequences, FiniteSets, TLC

(* ------------------------------ bounds -------------------------------- *)
MaxItems == 3        \* destination ids are 1..MaxItems
MaxCat   == 2        \* category ids are 1..MaxCat
MaxN     == 2        \* largest "small" requested count tried

(* ------------------------- program constants -------------------------- *)
ReturnAllThreshold     == 1000   \* n >= 1000 returns every item
DbDecayCutoff          == 200    \* get_all_items_fallback_from_db: i < 200
ModelDecayCutoff       == 100    \* get_all_items_fallback: i < 100
DefaultMinInteractions == 3      \* recommend(..., k_min_interactions=3)

(* ------------------------------ values -------------------------------- *)
None  == "None"                       \* Python None, for string-valued slots
Items == 1..MaxItems
Cats  == 1..MaxCat
Users == {"u1"}

StrTab == <<"1", "2", "3", "4", "5", "6">>
\* Python str() of a destination id: the table for the ids of the small
\* catalogs, the decimal numeral beyond it.
str(i) == IF i <= Len(StrTab) THEN StrTab[i] ELSE ToString(i)
StrIds == {str(i) : i \in Items}

Range(s) == {s[i] : i \in DOMAIN s}
Min(a, b) == IF a <= b THEN a ELSE b
Max(a, b) == IF a >= b THEN a ELSE b

\* An optional list of category ids: None, or a list (possibly empty).
CatsNone    == [isNone |-> TRUE, ids |-> <<>>]
CatList(s)  == [isNone |-> FALSE, ids |-> s]
Truthy(c)   == ~c.isNone /\ c.ids # <<>>      \* Python: "if selected_cat_ids:"

\* Rational scores.
Score(a, b)  == [num |-> a, den |-> b]
ScoreLt(x, y) == x.num * y.den < y.num * x.den
ScoreEq(x, y) == x.num * y.den = y.num * x.den
ScoreGe(x, y) == ~ScoreLt(x, y)

(* ------------------------------- state -------------------------------- *)
VARIABLES
    ML_MODEL_AVAILABLE,   \* recommendation.py:22/30
    df_items,             \* items_df of the artifact, or None
    trainset,             \* raw ids seen at training, or None
    algo,                 \* est / qi / bi of the trained model, or None
    GLOBAL_MEAN,          \* recommendation.py:14/29
    df_ratings,           \* recommendation.py:38, module global
    supabase,             \* supabase_client.py: client or None
    destinasi,            \* live table "destinasi": rows in primary-key order
    ratings,              \* live table "ratings"
    preference,           \* live table "preference": user -> category ids
    last,                 \* the last call: its arguments and what it returned
    collector_instance,   \* collector.py:192: 0 for None, or the registered collector
    collectors,           \* the MetricsCollector objects and their loop tasks
    collector_call        \* what the last start/stop call did

artifactVars == <<ML_MODEL_AVAILABLE, df_items, trainset, algo, GLOBAL_MEAN>>
dbVars       == <<supabase, destinasi, ratings, preference>>
collectorVars == <<collector_instance, collectors, collector_call>>
vars == <<ML_MODEL_AVAILABLE, df_items, trainset, algo, GLOBAL_MEAN,
          df_ratings, supabase, destinasi, ratings, preference, last,
          collector_instance, collectors, collector_call>>

(* ------------------------- catalogs and models ------------------------ *)
RECURSIVE BuildRows(_, _)
\* The rows of a catalog in id order; f[i] = 0 means item i is not in it.
BuildRows(f, i) ==
    IF i > MaxItems THEN <<>>
    ELSE (IF f[i] = 0 THEN <<>>
          ELSE <<[destinasi_id |-> i, kategori_id |-> f[i]]>>)
         \o BuildRows(f, i + 1)

\* Training category of item i in the snapshots tried: items alternate
\* between the categories.
SnapCat(i) == ((i - 1) % MaxCat) + 1

\* The live table: every item is absent, in its training category, or has
\* been moved to the next category since training.
LiveCatalogs ==
    {BuildRows(f, 1) :
        f \in {g \in [Items -> 0..MaxCat] :
                  \A i \in Items : g[i] \in {0, SnapCat(i), (SnapCat(i) % MaxCat) + 1}}}

\* modelling.py:116-117,163: the snapshot keeps str ids and int categories.
SnapshotOf(rows) ==
    [i \in 1..Len(rows) |->
        [destinasi_id |-> str(rows[i].destinasi_id),
         kategori_id  |-> rows[i].kategori_id]]

\* The catalog at training time held the items 1..m.
Snapshots ==
    {SnapshotOf(BuildRows([i \in Items |-> IF i <= m THEN SnapCat(i) ELSE 0], 1)) :
        m \in Items}

IdsOf(rows) == {rows[i].destinasi_id : i \in 1..Len(rows)}

Idx(iid) == CHOOSE i \in 1..Len(StrTab) : StrTab[i] = iid

\* The trained model: estimates and item factors with ties (items of equal
\* parity score alike) and an order that differs from the catalog's.
AlgoTrained ==
    [isNone |-> FALSE,
     est |-> [u \in Users |-> [iid \in StrIds |-> 3 + (Idx(iid) % 2)]],
     qi  |-> [iid \in StrIds |-> <<Idx(iid) % 2, 1>>],
     bi  |-> [iid \in StrIds |-> Idx(iid) % 2],
     global_mean |-> 3]
AlgoNone == [isNone |-> TRUE]

(* ---------------------- recommendation.py: utilities ------------------ *)
\* recommendation.py:34-36: the hook returns an empty frame of ratings.
fetch_latest_ratings == {}

\* recommendation.py:41-45
known_item(raw_iid) ==
    IF ~ML_MODEL_AVAILABLE \/ trainset.isNone THEN FALSE
    ELSE raw_iid \in trainset.raw2inner

\* Mutant: the live query drops its .in_("kategori_id", ...) filter.
SelectDestinasi_Unfiltered(restrict_cats) == destinasi

\* supabase.table("destinasi").select(...)[.in_("kategori_id", cats)].execute()
SelectDestinasi(restrict_cats) ==
    IF restrict_cats.isNone THEN destinasi
    ELSE SelectSeq(destinasi, LAMBDA r : r.kategori_id \in Range(restrict_cats.ids))

\* Mutant: the snapshot is returned whole, whatever the restriction.
SnapshotCandidates_Unfiltered(restrict_cats) ==
    IF ~ML_MODEL_AVAILABLE \/ df_items.isNone THEN <<>>
    ELSE [i \in 1..Len(df_items.rows) |-> df_items.rows[i].destinasi_id]

\* recommendation.py:70-80: the frozen snapshot, filtered the same way.
SnapshotCandidates(restrict_cats) ==
    IF ~ML_MODEL_AVAILABLE \/ df_items.isNone THEN <<>>
    ELSE LET rows == IF restrict_cats.isNone THEN df_items.rows
                     ELSE SelectSeq(df_items.rows,
                              LAMBDA r : r.kategori_id \in Range(restrict_cats.ids))
         IN  [i \in 1..Len(rows) |-> rows[i].destinasi_id]

\* recommendation.py:47-80.  dbFails: the live query raises during this call.
\* A query that raises, a client that is None and an empty result all fall
\* through to the snapshot.
_candidates(restrict_cats, dbFails) ==
    LET data == IF supabase # None /\ ~dbFails
                THEN SelectDestinasi(restrict_cats) ELSE <<>>
    IN  IF data # <<>>
        THEN [i \in 1..Len(data) |-> str(data[i].destinasi_id)]
        ELSE SnapshotCandidates(restrict_cats)

\* The live query of one call (lines 56-61): it raises, or it returns rows.
\* A client that is None is never queried.
LiveQuery(restrict_cats, dbFails) ==
    IF supabase = None THEN [asked |-> FALSE, raised |-> FALSE, data |-> <<>>]
    ELSE IF dbFails THEN [asked |-> TRUE, raised |-> TRUE, data |-> <<>>]
    ELSE [asked |-> TRUE, raised |-> FALSE, data |-> SelectDestinasi(restrict_cats)]

\* Mutant: no handler around the live query, its exception leaves the call.
CandidatesOutcome_NoExcept(restrict_cats, dbFails) ==
    LET live == LiveQuery(restrict_cats, dbFails)
    IN  IF live.raised THEN [raised |-> TRUE, value |-> <<>>]
        ELSE IF live.data # <<>>
        THEN [raised |-> FALSE,
              value |-> [i \in 1..Len(live.data) |-> str(live.data[i].destinasi_id)]]
        ELSE [raised |-> FALSE, value |-> SnapshotCandidates(restrict_cats)]

\* recommendation.py:47-80 as a call: whether it raised, and what it returned.
\* "except Exception" (line 66) swallows a failing query, and the code after
\* the handler reads df_items only behind the guard of line 70.
CandidatesOutcome(restrict_cats, dbFails) ==
    LET live == LiveQuery(restrict_cats, dbFails)
    IN  IF ~live.raised /\ live.data # <<>>
        THEN [raised |-> FALSE,
              value |-> [i \in 1..Len(live.data) |-> str(live.data[i].destinasi_id)]]
        ELSE [raised |-> FALSE, value |-> SnapshotCandidates(restrict_cats)]

\* Python s[:n], negative n included.
Slice(s, n) ==
    IF n >= 0 THEN SubSeq(s, 1, Min(n, Len(s)))
    ELSE SubSeq(s, 1, Max(Len(s) + n, 0))

\* Mutant: the slice keeps one item too many.
Truncate_OffByOne(scored, n) ==
    IF n >= ReturnAllThreshold THEN scored ELSE Slice(scored, n + 1)

\* "scored if n >= 1000 else scored[:n]" (lines 119, 147, 164, 190)
Truncate(scored, n) ==
    IF n >= ReturnAllThreshold THEN scored ELSE Slice(scored, n)

\* Mutant: an unstable sort, x goes in front of the elements of equal score.
InsertDesc_BeforeEqual(acc, x) ==
    LET before == {j \in 1..Len(acc) : ScoreLt(x.score, acc[j].score)}
        k == IF before = {} THEN 0 ELSE CHOOSE j \in before : \A m \in before : m <= j
    IN  SubSeq(acc, 1, k) \o <<x>> \o SubSeq(acc, k + 1, Len(acc))

\* list.sort(key=lambda x: x[1], reverse=True): a stable sort, so x goes
\* behind every element whose score is not smaller.
InsertDesc(acc, x) ==
    LET before == {j \in 1..Len(acc) : ScoreGe(acc[j].score, x.score)}
        k == IF before = {} THEN 0 ELSE CHOOSE j \in before : \A m \in before : m <= j
    IN  SubSeq(acc, 1, k) \o <<x>> \o SubSeq(acc, k + 1, Len(acc))

RECURSIVE SortFrom(_, _, _, _)
\* acc with s[lo], ..., s[hi] inserted one after the other, in that order.
\* The range is halved, and the left half is computed before the right one
\* starts, so that the evaluation of a long list stays shallow.
SortFrom(acc, s, lo, hi) ==
    IF lo > hi THEN acc
    ELSE IF lo = hi THEN InsertDesc(acc, s[lo])
    ELSE LET mid == (lo + hi) \div 2
             left == SortFrom(acc, s, lo, mid)
         IN  IF Len(left) >= 0 THEN SortFrom(left, s, mid + 1, hi) ELSE left

SortDesc(s) == SortFrom(<<>>, s, 1, Len(s))

(* --------------------------- Fallback Ranker -------------------------- *)
\* recommendation.py:140: 10.0 - (i * 0.1) if i < 100 else 1.0
ModelBasicScore(i) ==
    IF i < ModelDecayCutoff THEN Score(100 - i, 10) ELSE Score(1, 1)

\* recommendation.py:110: 10.0 - (i * 0.05) if i < 200 else 1.0
DbBasicScore(i) ==
    IF i < DbDecayCutoff THEN Score(1000 - 5 * i, 100) ELSE Score(1, 1)

\* recommendation.py:128-144: the ranked list before truncation
FallbackRanked(restrict_cats, dbFails) ==
    LET candidates == _candidates(restrict_cats, dbFails)
    IN  SortDesc([i \in 1..Len(candidates) |->
                    [id |-> candidates[i], score |-> ModelBasicScore(i - 1)]])

\* recommendation.py:128-149
get_all_items_fallback(restrict_cats, n, dbFails) ==
    LET ranked == FallbackRanked(restrict_cats, dbFails)
    IN  [ranked |-> ranked, result |-> Truncate(ranked, n)]

\* Mutant: the loop over the rows starts at the second row.
DbFallbackRanked_SkipsFirst(data) ==
    SortDesc([i \in 1..(Len(data) - 1) |->
                [id |-> str(data[i + 1].destinasi_id), score |-> DbBasicScore(i)]])

\* recommendation.py:105-114: the ranked list built from the table's rows
DbFallbackRanked(data) ==
    SortDesc([i \in 1..Len(data) |->
                [id |-> str(data[i].destinasi_id), score |-> DbBasicScore(i - 1)]])

\* recommendation.py:82-126
get_all_items_fallback_from_db(restrict_cats, n, dbFails) ==
    IF supabase = None THEN get_all_items_fallback(restrict_cats, n, dbFails)
    ELSE IF dbFails THEN get_all_items_fallback(restrict_cats, n, dbFails)
    ELSE LET data == SelectDestinasi(restrict_cats)
         IN  IF data = <<>>
             THEN get_all_items_fallback(restrict_cats, n, dbFails)
             ELSE LET ranked == DbFallbackRanked(data)
                  IN  [ranked |-> ranked, result |-> Truncate(ranked, n)]

\* Mutant: no handler around the body, a failing query leaves the call.
FallbackOutcome_NoExcept(restrict_cats, n, dbFails) ==
    LET live == LiveQuery(restrict_cats, dbFails)
        r == get_all_items_fallback_from_db(restrict_cats, n, dbFails)
    IN  IF live.raised THEN [raised |-> TRUE, result |-> <<>>]
        ELSE [raised |-> FALSE, result |-> r.result]

\* recommendation.py:82-126 as a call: whether it raised, and what it
\* returned.  The whole body is inside try/except Exception (lines 87, 123);
\* the handler and the two early returns call get_all_items_fallback, which
\* raises only if _candidates does.
FallbackOutcome(restrict_cats, n, dbFails) ==
    LET live == LiveQuery(restrict_cats, dbFails)
        r == get_all_items_fallback_from_db(restrict_cats, n, dbFails)
        fromModel == ~live.asked \/ live.raised \/ live.data = <<>>
    IN  [raised |-> fromModel /\ CandidatesOutcome(restrict_cats, dbFails).raised,
         result |-> r.result]

(* -------------------------- Known-User Scorer ------------------------- *)
\* recommendation.py:154
Taken(user_id) ==
    {str(r.destinasi_id) : r \in {x \in df_ratings : x.user_id = user_id}}

\* recommendation.py:152-164
topn_for_user(user_id, n, restrict_cats, dbFails) ==
    LET taken == Taken(user_id)
        kept  == SelectSeq(_candidates(restrict_cats, dbFails),
                     LAMBDA iid : ~(iid \in taken \/ ~known_item(iid)))
        preds == [i \in 1..Len(kept) |->
                    [id |-> kept[i], score |-> Score(algo.est[user_id][kept[i]], 1)]]
        ranked == SortDesc(preds)
    IN  [ranked |-> ranked, result |-> Truncate(ranked, n)]

(* -------------------------- Cold-Start Scorer ------------------------- *)
RECURSIVE VecSum(_, _)
\* component-wise sum of the vectors vs[i..]
VecSum(vs, i) ==
    IF i > Len(vs) THEN <<0, 0>>
    ELSE LET rest == VecSum(vs, i + 1)
         IN  <<vs[i][1] + rest[1], vs[i][2] + rest[2]>>

Dot(a, b) == a[1] * b[1] + a[2] * b[2]

PuNone == [isNone |-> TRUE, num |-> <<0, 0>>, den |-> 1]

\* Mutant: the sum of the known items' vectors is divided by the number of
\* all the items of the categories.
pseudo_user_vector_from_categories_DividesByAll(selected_cat_ids) ==
    IF df_items.isNone THEN [raised |-> TRUE, pu |-> PuNone]
    ELSE LET rows == SelectSeq(df_items.rows,
                         LAMBDA r : r.kategori_id \in Range(selected_cat_ids))
             known == SelectSeq(rows, LAMBDA r : known_item(r.destinasi_id))
             qvecs == [i \in 1..Len(known) |-> algo.qi[known[i].destinasi_id]]
         IN  IF qvecs = <<>> THEN [raised |-> FALSE, pu |-> PuNone]
             ELSE [raised |-> FALSE,
                   pu |-> [isNone |-> FALSE, num |-> VecSum(qvecs, 1), den |-> Len(rows)]]

\* Mutant: items unknown to the model are averaged in too.
pseudo_user_vector_from_categories_NoKnownCheck(selected_cat_ids) ==
    IF df_items.isNone THEN [raised |-> TRUE, pu |-> PuNone]
    ELSE LET rows == SelectSeq(df_items.rows,
                         LAMBDA r : r.kategori_id \in Range(selected_cat_ids))
             qvecs == [i \in 1..Len(rows) |-> algo.qi[rows[i].destinasi_id]]
         IN  IF qvecs = <<>> THEN [raised |-> FALSE, pu |-> PuNone]
             ELSE [raised |-> FALSE,
                   pu |-> [isNone |-> FALSE, num |-> VecSum(qvecs, 1), den |-> Len(qvecs)]]

\* recommendation.py:167-176.  The mean is kept as the pair (sum, count).
\* Reading df_items while it is None raises.
pseudo_user_vector_from_categories(selected_cat_ids) ==
    IF df_items.isNone THEN [raised |-> TRUE, pu |-> PuNone]
    ELSE LET rows == SelectSeq(df_items.rows,
                         LAMBDA r : r.kategori_id \in Range(selected_cat_ids))
             cand_items == [i \in 1..Len(rows) |-> rows[i].destinasi_id]
             known == SelectSeq(cand_items, LAMBDA iid : known_item(iid))
             qvecs == [i \in 1..Len(known) |-> algo.qi[known[i]]]
         IN  IF qvecs = <<>> THEN [raised |-> FALSE, pu |-> PuNone]
             ELSE [raised |-> FALSE,
                   pu |-> [isNone |-> FALSE, num |-> VecSum(qvecs, 1), den |-> Len(qvecs)]]

\* Mutant: candidates unknown to the model are scored too.
score_items_for_pseudo_user_NoKnownCheck(pu_vec, exclude, restrict_cats, n, dbFails) ==
    LET kept == SelectSeq(_candidates(restrict_cats, dbFails),
                    LAMBDA iid : ~(iid \in exclude))
        scored == [i \in 1..Len(kept) |->
                    [id |-> kept[i],
                     score |-> Score(pu_vec.den * (GLOBAL_MEAN + algo.bi[kept[i]])
                                       + Dot(algo.qi[kept[i]], pu_vec.num),
                                     pu_vec.den)]]
        ranked == SortDesc(scored)
    IN  [ranked |-> ranked, result |-> Truncate(ranked, n)]

\* Mutant: the item bias is left out of the score.
score_items_for_pseudo_user_NoItemBias(pu_vec, exclude, restrict_cats, n, dbFails) ==
    LET kept == SelectSeq(_candidates(restrict_cats, dbFails),
                    LAMBDA iid : ~(iid \in exclude \/ ~known_item(iid)))
        scored == [i \in 1..Len(kept) |->
                    [id |-> kept[i],
                     score |-> Score(pu_vec.den * GLOBAL_MEAN
                                       + Dot(algo.qi[kept[i]], pu_vec.num),
                                     pu_vec.den)]]
        ranked == SortDesc(scored)
    IN  [ranked |-> ranked, result |-> Truncate(ranked, n)]

\* recommendation.py:178-190.
\* score = GLOBAL_MEAN + bi + dot(qi, pu), with pu = num / den.
score_items_for_pseudo_user(pu_vec, exclude, restrict_cats, n, dbFails) ==
    LET kept == SelectSeq(_candidates(restrict_cats, dbFails),
                    LAMBDA iid : ~(iid \in exclude \/ ~known_item(iid)))
        scored == [i \in 1..Len(kept) |->
                    [id |-> kept[i],
                     score |-> Score(pu_vec.den * (GLOBAL_MEAN + algo.bi[kept[i]])
                                       + Dot(algo.qi[kept[i]], pu_vec.num),
                                     pu_vec.den)]]
        ranked == SortDesc(scored)
    IN  [ranked |-> ranked, result |-> Truncate(ranked, n)]

\* trainset.to_inner_iid raises ValueError for a raw id that was not in the
\* training set (lines 171, 183).
RaisesToInnerIid(iid) ==
    IF trainset.isNone THEN TRUE ELSE iid \notin trainset.raw2inner

\* Mutant: the loop has no known_item test, an unknown candidate reaches
\* to_inner_iid.
ScoreItemsOutcome_NoKnownCheck(pu_vec, exclude, restrict_cats, n, dbFails) ==
    LET cands == _candidates(restrict_cats, dbFails)
        reached == SelectSeq(cands, LAMBDA iid : iid \notin exclude)
    IN  IF \E i \in 1..Len(reached) : RaisesToInnerIid(reached[i])
        THEN [raised |-> TRUE, ranked |-> <<>>, result |-> <<>>]
        ELSE LET r == score_items_for_pseudo_user_NoKnownCheck(
                          pu_vec, exclude, restrict_cats, n, dbFails)
             IN  [raised |-> FALSE, ranked |-> r.ranked, result |-> r.result]

\* recommendation.py:178-190 as a call: whether it raised, and what it
\* returned.  The candidates that pass the test of line 181 reach
\* to_inner_iid.
ScoreItemsOutcome(pu_vec, exclude, restrict_cats, n, dbFails) ==
    LET cands == _candidates(restrict_cats, dbFails)
        reached == SelectSeq(cands,
                       LAMBDA iid : ~(iid \in exclude \/ ~known_item(iid)))
    IN  IF \E i \in 1..Len(reached) : RaisesToInnerIid(reached[i])
        THEN [raised |-> TRUE, ranked |-> <<>>, result |-> <<>>]
        ELSE LET r == score_items_for_pseudo_user(
                          pu_vec, exclude, restrict_cats, n, dbFails)
             IN  [raised |-> FALSE, ranked |-> r.ranked, result |-> r.result]

(* ----------------------------- Dispatcher ----------------------------- *)
\* recommendation.py:209
n_inter(user_id) == Cardinality({x \in df_ratings : x.user_id = user_id})

Branch(b, r) == [branch |-> b, ranked |-> r.ranked, result |-> r.result]

\* Mutant: the "pu is not None" test is missing, a category list always
\* goes to the cold-start scorer.
recommend_ScoresWithoutVector(user_id, selected_cat_ids, n, k_min_interactions, dbFails) ==
    IF ~ML_MODEL_AVAILABLE
    THEN Branch("fallback", get_all_items_fallback_from_db(selected_cat_ids, n, dbFails))
    ELSE IF user_id # None /\ n_inter(user_id) >= k_min_interactions
    THEN Branch("known-user", topn_for_user(user_id, n, selected_cat_ids, dbFails))
    ELSE IF Truthy(selected_cat_ids)
    THEN Branch("cold-start",
                score_items_for_pseudo_user(
                    pseudo_user_vector_from_categories(selected_cat_ids.ids).pu,
                    {}, selected_cat_ids, n, dbFails))
    ELSE Branch("fallback", get_all_items_fallback_from_db(selected_cat_ids, n, dbFails))

\* Mutant: the dispatcher does not look at the availability flag.
recommend_NoAvailabilityCheck(user_id, selected_cat_ids, n, k_min_interactions, dbFails) ==
    IF user_id # None /\ n_inter(user_id) >= k_min_interactions
    THEN Branch("known-user", topn_for_user(user_id, n, selected_cat_ids, dbFails))
    ELSE LET pu == IF Truthy(selected_cat_ids)
                   THEN pseudo_user_vector_from_categories(selected_cat_ids.ids).pu
                   ELSE PuNone
         IN  IF Truthy(selected_cat_ids) /\ ~pu.isNone
             THEN Branch("cold-start",
                      score_items_for_pseudo_user(pu, {}, selected_cat_ids, n, dbFails))
             ELSE Branch("fallback",
                      get_all_items_fallback_from_db(selected_cat_ids, n, dbFails))

\* recommendation.py:193-228.  branch names the return statement that fired.
recommend(user_id, selected_cat_ids, n, k_min_interactions, dbFails) ==
    IF ~ML_MODEL_AVAILABLE
    THEN Branch("fallback", get_all_items_fallback_from_db(selected_cat_ids, n, dbFails))
    ELSE IF user_id # None /\ n_inter(user_id) >= k_min_interactions
    THEN Branch("known-user", topn_for_user(user_id, n, selected_cat_ids, dbFails))
    ELSE LET pu == IF Truthy(selected_cat_ids)
                   THEN pseudo_user_vector_from_categories(selected_cat_ids.ids).pu
                   ELSE PuNone
         IN  IF Truthy(selected_cat_ids) /\ ~pu.isNone
             THEN Branch("cold-start",
                      score_items_for_pseudo_user(pu, {}, selected_cat_ids, n, dbFails))
             ELSE Branch("fallback",
                      get_all_items_fallback_from_db(selected_cat_ids, n, dbFails))

(* ------------------------------- calls -------------------------------- *)
RECURSIVE AscendingSeq(_, _)
\* the members of S that are >= c, ascending
AscendingSeq(S, c) ==
    IF c > MaxCat THEN <<>>
    ELSE (IF c \in S THEN <<c>> ELSE <<>>) \o AscendingSeq(S, c + 1)

\* the empty list, each single category, and all categories
CatLists == {<<>>, AscendingSeq(Cats, 1)} \cup {<<c>> : c \in Cats}
CatArgs  == {CatsNone} \cup {CatList(s) : s \in CatLists}
UserArgs == {None} \cup Users
NArgs    == (-1..MaxN) \cup {ReturnAllThreshold}
KArgs    == {0, DefaultMinInteractions}

NoCall ==
    [op |-> "none", user_id |-> None, cats |-> CatsNone, n |-> 0, k |-> 0,
     dbFails |-> FALSE, raised |-> FALSE, branch |-> "none",
     ranked |-> <<>>, result |-> <<>>, value |-> <<>>, pu |-> PuNone,
     exclude |-> {},
     dest |-> 0, rating |-> 0, nGiven |-> FALSE, prefFails |-> FALSE,
     status |-> 0, recommendation_type |-> "none"]

(* --------------------------- metrics collector ------------------------ *)
MaxCollectors == 3
CollectorIds == 1..MaxCollectors

\* A MetricsCollector that has not been constructed yet.  pc is the
\* position of its loop task: "unborn", "created" (scheduled by create_task,
\* no step taken), "collecting", "sleeping", "done".  stopped records that
\* stop_collection was called on it.
Unborn == [is_running |-> FALSE, stopped |-> FALSE, pc |-> "unborn"]

\* collector.py:192: no collector is registered
NoCollector ==
    /\ collector_instance = 0
    /\ collectors = [id \in CollectorIds |-> Unborn]
    /\ collector_call = "none"

(* ------------------------------- Init --------------------------------- *)
\* recommendation.py:9-30: the load either succeeds or leaves the degraded
\* globals; the import never fails.
LoadArtifact ==
    \/ /\ ML_MODEL_AVAILABLE = TRUE
       /\ df_items \in {[isNone |-> FALSE, rows |-> s] : s \in Snapshots}
       /\ trainset \in {[isNone |-> FALSE, raw2inner |-> K] :
                            K \in (SUBSET IdsOf(df_items.rows)) \ {{}}}
       /\ algo = AlgoTrained
       /\ GLOBAL_MEAN = algo.global_mean
    \/ /\ ML_MODEL_AVAILABLE = FALSE
       /\ df_items = [isNone |-> TRUE, rows |-> <<>>]
       /\ trainset = [isNone |-> TRUE, raw2inner |-> {}]
       /\ algo = AlgoNone
       /\ GLOBAL_MEAN = 3

\* supabase_client.py:14-18
CreateClient ==
    \/ supabase = None /\ destinasi = <<>>
    \/ supabase = "client" /\ destinasi \in LiveCatalogs

Init ==
    /\ LoadArtifact
    /\ CreateClient
    /\ df_ratings = fetch_latest_ratings
    /\ ratings = {}
    /\ preference = [u \in Users |-> <<>>]
    /\ last = NoCall
    /\ NoCollector

(* ------------------------------ actions ------------------------------- *)
\* Mutant: a call that ends in the fallback marks the model unavailable.
Recommend_DropsArtifact ==
    \E user_id \in UserArgs, cats \in CatArgs, n \in NArgs, k \in KArgs,
       dbFails \in BOOLEAN :
        /\ last.op = "none"
        /\ dbFails => supabase # None
        /\ LET r == recommend(user_id, cats, n, k, dbFails)
           IN  /\ last' = [NoCall EXCEPT !.op = "recommend", !.user_id = user_id,
                                          !.cats = cats, !.n = n, !.k = k,
                                          !.dbFails = dbFails, !.branch = r.branch,
                                          !.ranked = r.ranked, !.result = r.result]
               /\ ML_MODEL_AVAILABLE' = (ML_MODEL_AVAILABLE /\ r.branch # "fallback")
        /\ UNCHANGED <<collectorVars, df_items, trainset, algo, GLOBAL_MEAN, df_ratings,
                     dbVars>>

\* A direct call of the engine's entry point.
Recommend ==
    \E user_id \in UserArgs, cats \in CatArgs, n \in NArgs, k \in KArgs,
       dbFails \in BOOLEAN :
        /\ last.op = "none"
        /\ dbFails => supabase # None
        /\ LET r == recommend(user_id, cats, n, k, dbFails)
           IN  last' = [NoCall EXCEPT !.op = "recommend", !.user_id = user_id,
                                      !.cats = cats, !.n = n, !.k = k,
                                      !.dbFails = dbFails, !.branch = r.branch,
                                      !.ranked = r.ranked, !.result = r.result]
        /\ UNCHANGED <<collectorVars, artifactVars, df_ratings, dbVars>>

\* The caller has consumed the response; the next request may start.
Return ==
    /\ last.op # "none"
    /\ last' = NoCall
    /\ UNCHANGED <<collectorVars, artifactVars, df_ratings, dbVars>>

\* A direct call of the pseudo-user construction (recommendation.py:167).
PseudoUserVector ==
    \E ids \in CatLists :
        /\ last.op = "none"
        /\ LET r == pseudo_user_vector_from_categories(ids)
           IN  last' = [NoCall EXCEPT !.op = "pseudo_user_vector",
                                      !.cats = CatList(ids),
                                      !.raised = r.raised, !.pu = r.pu]
        /\ UNCHANGED <<collectorVars, artifactVars, df_ratings, dbVars>>

\* A direct call of the Candidate Provider (recommendation.py:47).
Candidates ==
    \E cats \in CatArgs, dbFails \in BOOLEAN :
        /\ last.op = "none"
        /\ dbFails => supabase # None
        /\ LET r == CandidatesOutcome(cats, dbFails)
           IN  last' = [NoCall EXCEPT !.op = "_candidates", !.cats = cats,
                                      !.dbFails = dbFails, !.raised = r.raised,
                                      !.value = r.value]
        /\ UNCHANGED <<collectorVars, artifactVars, df_ratings, dbVars>>

\* A direct call of the Fallback Ranker (recommendation.py:82).
Fallback ==
    \E cats \in CatArgs, n \in NArgs, dbFails \in BOOLEAN :
        /\ last.op = "none"
        /\ dbFails => supabase # None
        /\ LET r == FallbackOutcome(cats, n, dbFails)
           IN  last' = [NoCall EXCEPT !.op = "get_all_items_fallback_from_db",
                                      !.cats = cats, !.n = n, !.dbFails = dbFails,
                                      !.raised = r.raised, !.result = r.result]
        /\ UNCHANGED <<collectorVars, artifactVars, df_ratings, dbVars>>

Next == Recommend \/ PseudoUserVector \/ Candidates \/ Fallback \/ Return

Spec == Init /\ [][Next]_vars

(* ------------------------ the scorers, called directly ---------------- *)
PuArgs == {[isNone |-> FALSE, num |-> <<1, 2>>, den |-> 2],
           [isNone |-> FALSE, num |-> <<0, 1>>, den |-> 1]}
ExcludeArgs == {{}, {str(1)}}

\* A direct call of the Cold-Start Scorer (recommendation.py:178).
ScoreItems ==
    \E pu_vec \in PuArgs, exclude \in ExcludeArgs, cats \in CatArgs,
       n \in NArgs, dbFails \in BOOLEAN :
        /\ last.op = "none"
        /\ dbFails => supabase # None
        /\ LET r == ScoreItemsOutcome(pu_vec, exclude, cats, n, dbFails)
           IN  last' = [NoCall EXCEPT !.op = "score_items_for_pseudo_user",
                                      !.pu = pu_vec, !.exclude = exclude,
                                      !.cats = cats, !.n = n, !.dbFails = dbFails,
                                      !.raised = r.raised, !.ranked = r.ranked,
                                      !.result = r.result]
        /\ UNCHANGED <<collectorVars, artifactVars, df_ratings, dbVars>>

\* A direct call of the Known-User Scorer (recommendation.py:152).
\* algo.predict answers for an unknown user or item too; it is called only
\* for known items.
TopNForUser ==
    \E user_id \in Users, cats \in CatArgs, n \in NArgs, dbFails \in BOOLEAN :
        /\ last.op = "none"
        /\ dbFails => supabase # None
        /\ LET r == topn_for_user(user_id, n, cats, dbFails)
           IN  last' = [NoCall EXCEPT !.op = "topn_for_user", !.user_id = user_id,
                                      !.cats = cats, !.n = n, !.dbFails = dbFails,
                                      !.ranked = r.ranked, !.result = r.result]
        /\ UNCHANGED <<collectorVars, artifactVars, df_ratings, dbVars>>

NextScorers == ScoreItems \/ TopNForUser \/ Return

SpecScorers == Init /\ [][NextScorers]_vars

(* --------------------- the Fallback Ranker on long lists -------------- *)
\* Table lengths around the cutoff indices of lines 140 and 110.
LongLens == {ModelDecayCutoff - 9, ModelDecayCutoff + 1, DbDecayCutoff + 1}

\* A live table of len destinations, in id order.
LongCatalog(len) ==
    [i \in 1..len |-> [destinasi_id |-> i, kategori_id |-> SnapCat(i)]]

\* No artifact could be loaded; the live table is long.
InitLong ==
    /\ ML_MODEL_AVAILABLE = FALSE
    /\ df_items = [isNone |-> TRUE, rows |-> <<>>]
    /\ trainset = [isNone |-> TRUE, raw2inner |-> {}]
    /\ algo = AlgoNone
    /\ GLOBAL_MEAN = 3
    /\ supabase = "client"
    /\ destinasi \in {LongCatalog(len) : len \in LongLens}
    /\ df_ratings = fetch_latest_ratings
    /\ ratings = {}
    /\ preference = [u \in Users |-> <<>>]
    /\ last = NoCall
    /\ NoCollector

\* A direct call of the model-data fallback (recommendation.py:128).
ModelFallback ==
    \E cats \in CatArgs, n \in NArgs, dbFails \in BOOLEAN :
        /\ last.op = "none"
        /\ dbFails => supabase # None
        /\ LET r == get_all_items_fallback(cats, n, dbFails)
           IN  last' = [NoCall EXCEPT !.op = "get_all_items_fallback",
                                      !.cats = cats, !.n = n, !.dbFails = dbFails,
                                      !.ranked = r.ranked, !.result = r.result]
        /\ UNCHANGED <<collectorVars, artifactVars, df_ratings, dbVars>>

NextLong == ModelFallback \/ Fallback \/ Return

SpecLong == InitLong /\ [][NextLong]_vars

(* ----------------------------- the routers ---------------------------- *)
RatingArgs == {0, 1, 5, 6}

\* review.py:58: the user's rows for the destination
ExistingReview(user_id, destination_id) ==
    {r \in ratings : r.user_id = user_id /\ r.destinasi_id = destination_id}

\* Mutant: no look-up of an existing review, every valid call inserts a row.
submit_review_AlwaysInserts(user_id, destination_id, rating, dbFails) ==
    IF rating < 1 \/ rating > 5 THEN [status |-> 400, ratings |-> ratings]
    ELSE IF supabase = None THEN [status |-> 500, ratings |-> ratings]
    ELSE IF dbFails THEN [status |-> 500, ratings |-> ratings]
    ELSE IF ~\E i \in 1..Len(destinasi) : destinasi[i].destinasi_id = destination_id
    THEN [status |-> 404, ratings |-> ratings]
    ELSE [status |-> 200,
          ratings |-> ratings \cup {[user_id |-> user_id,
                                      destinasi_id |-> destination_id,
                                      rating |-> rating]}]

\* review.py:23-108.  Returns the HTTP status and the table after the call.
\* dbFails: the first query of the request raises, which the handler
\* answers with 500.
submit_review(user_id, destination_id, rating, dbFails) ==
    IF rating < 1 \/ rating > 5 THEN [status |-> 400, ratings |-> ratings]
    ELSE IF supabase = None THEN [status |-> 500, ratings |-> ratings]
    ELSE IF dbFails THEN [status |-> 500, ratings |-> ratings]
    ELSE IF ~\E i \in 1..Len(destinasi) : destinasi[i].destinasi_id = destination_id
    THEN [status |-> 404, ratings |-> ratings]
    ELSE IF ExistingReview(user_id, destination_id) # {}
    THEN [status |-> 200,
          ratings |-> {IF r \in ExistingReview(user_id, destination_id)
                          THEN [r EXCEPT !.rating = rating] ELSE r : r \in ratings}]
    ELSE [status |-> 200,
          ratings |-> ratings \cup {[user_id |-> user_id,
                                      destinasi_id |-> destination_id,
                                      rating |-> rating]}]

SubmitReview ==
    \E user_id \in Users, destination_id \in Items, rating \in RatingArgs,
       dbFails \in BOOLEAN :
        /\ last.op = "none"
        /\ dbFails => supabase # None
        /\ LET r == submit_review(user_id, destination_id, rating, dbFails)
           IN  /\ ratings' = r.ratings
               /\ last' = [NoCall EXCEPT !.op = "submit_review", !.user_id = user_id,
                                          !.dest = destination_id, !.rating = rating,
                                          !.dbFails = dbFails, !.status = r.status]
        /\ UNCHANGED <<collectorVars, artifactVars, df_ratings, supabase, destinasi, preference>>

\* recommendation_router.py:70-81: the type is derived from the result and
\* from the presence of preferences.
RecommendationType(recommendations, selected_cat_ids) ==
    IF recommendations = <<>> THEN "fallback"
    ELSE IF Truthy(selected_cat_ids) /\ Len(selected_cat_ids.ids) > 0 THEN "cold_start"
    ELSE "personalized"

\* recommendation_router.py:27-104.  n is the query parameter (ge=1) when
\* nGiven, and omitted otherwise.  prefFails: the preference query raises.
get_recommendations(user_id, nGiven, n, prefFails, dbFails) ==
    LET failed == [status |-> 500, cats |-> CatsNone, n |-> 0, branch |-> "none",
                   ranked |-> <<>>, result |-> <<>>, recommendation_type |-> "none"]
    IN  IF supabase = None THEN failed
        ELSE IF prefFails THEN failed
        ELSE LET selected_cat_ids ==
                     IF preference[user_id] # <<>> THEN CatList(preference[user_id])
                     ELSE CatsNone
                 recommendation_count == IF nGiven THEN n ELSE 1000
                 r == recommend(user_id, selected_cat_ids, recommendation_count,
                                DefaultMinInteractions, dbFails)
             IN  [status |-> 200, cats |-> selected_cat_ids,
                  n |-> recommendation_count, branch |-> r.branch,
                  ranked |-> r.ranked, result |-> r.result,
                  recommendation_type |-> RecommendationType(r.result, selected_cat_ids)]

GetRecommendations ==
    \E user_id \in Users, nGiven \in BOOLEAN, n \in 1..MaxN,
       prefFails \in BOOLEAN, dbFails \in BOOLEAN :
        /\ last.op = "none"
        /\ (prefFails \/ dbFails) => supabase # None
        /\ ~nGiven => n = 1
        /\ LET r == get_recommendations(user_id, nGiven, n, prefFails, dbFails)
           IN  last' = [NoCall EXCEPT !.op = "get_recommendations",
                                      !.user_id = user_id, !.nGiven = nGiven,
                                      !.cats = r.cats, !.n = r.n,
                                      !.k = DefaultMinInteractions,
                                      !.prefFails = prefFails, !.dbFails = dbFails,
                                      !.status = r.status, !.branch = r.branch,
                                      !.ranked = r.ranked, !.result = r.result,
                                      !.recommendation_type = r.recommendation_type]
        /\ UNCHANGED <<collectorVars, artifactVars, df_ratings, dbVars>>

\* The application: the artifact was trained on the whole catalog, the
\* live table holds that catalog or has lost its last destination, and the
\* user may have declared a preference.
TrainingCatalog == BuildRows([i \in Items |-> SnapCat(i)], 1)

InitApp ==
    /\ LoadArtifact
    /\ ML_MODEL_AVAILABLE => Len(df_items.rows) = MaxItems
    /\ \/ supabase = None /\ destinasi = <<>>
       \/ /\ supabase = "client"
          /\ destinasi \in {TrainingCatalog, SubSeq(TrainingCatalog, 1, MaxItems - 1)}
    /\ df_ratings = fetch_latest_ratings
    /\ ratings = {}
    /\ preference \in [Users -> {<<>>, <<1>>}]
    /\ last = NoCall
    /\ NoCollector

NextApp == SubmitReview \/ GetRecommendations \/ Recommend \/ Return

SpecApp == InitApp /\ [][NextApp]_vars

(* ------------------------- the stores, written ------------------------ *)
\* Where a request to the database goes wrong during save_user_preferences:
\* nowhere, the delete raises, the insert raises, the insert returns no row.
PrefFailures == {"none", "delete", "insert", "insert_no_data"}

\* preference.py:71-132.  Returns the HTTP status and the user's stored
\* category ids after the call (weights are not modelled).
save_user_preferences(user_id, preferences, failure) ==
    IF supabase = None THEN [status |-> 500, stored |-> preference[user_id]]
    ELSE IF failure = "delete" THEN [status |-> 500, stored |-> preference[user_id]]
    \* line 90: the user's rows are deleted
    ELSE IF preferences = <<>> THEN [status |-> 400, stored |-> <<>>]
    ELSE IF failure = "insert" THEN [status |-> 500, stored |-> <<>>]
    ELSE IF failure = "insert_no_data" THEN [status |-> 400, stored |-> <<>>]
    ELSE [status |-> 200, stored |-> preferences]

SavePreferences ==
    \E user_id \in Users, preferences \in CatLists, failure \in PrefFailures :
        /\ last.op = "none"
        /\ failure # "none" => supabase # None
        /\ LET r == save_user_preferences(user_id, preferences, failure)
           IN  /\ preference' = [preference EXCEPT ![user_id] = r.stored]
               /\ last' = [NoCall EXCEPT !.op = "save_user_preferences",
                                          !.user_id = user_id,
                                          !.cats = CatList(preferences),
                                          !.status = r.status]
        /\ UNCHANGED <<collectorVars, artifactVars, df_ratings, supabase, destinasi, ratings>>

NextStore == SubmitReview \/ SavePreferences \/ Return

SpecStore == InitApp /\ [][NextStore]_vars

(* -------------------- the metrics collector's life cycle -------------- *)
\* The application's other state plays no part here.
InitCollector ==
    /\ ML_MODEL_AVAILABLE = FALSE
    /\ df_items = [isNone |-> TRUE, rows |-> <<>>]
    /\ trainset = [isNone |-> TRUE, raw2inner |-> {}]
    /\ algo = AlgoNone
    /\ GLOBAL_MEAN = 3
    /\ supabase = None /\ destinasi = <<>>
    /\ df_ratings = fetch_latest_ratings
    /\ ratings = {}
    /\ preference = [u \in Users |-> <<>>]
    /\ last = NoCall
    /\ NoCollector

\* Mutant: no "already running" test, every call constructs a collector.
start_metrics_collector_NoGuard ==
    /\ \E id \in CollectorIds :
        /\ collectors[id].pc = "unborn"
        /\ \A j \in CollectorIds : j < id => collectors[j].pc # "unborn"
        /\ collectors' = [collectors EXCEPT ![id] =
                             [is_running |-> FALSE, stopped |-> FALSE, pc |-> "created"]]
        /\ collector_instance' = id
        /\ collector_call' = "started"
    /\ UNCHANGED <<artifactVars, df_ratings, dbVars, last>>

\* collector.py:194-207.  The coroutine has no await: the test, the
\* construction and create_task happen in one step of the event loop, and
\* the new task has not run when the call returns.
start_metrics_collector ==
    /\ \/ /\ collector_instance # 0
          /\ collector_call' = "already running"
          /\ UNCHANGED <<collector_instance, collectors>>
       \/ /\ collector_instance = 0
          /\ \E id \in CollectorIds :
                /\ collectors[id].pc = "unborn"
                /\ \A j \in CollectorIds : j < id => collectors[j].pc # "unborn"
                /\ collectors' = [collectors EXCEPT ![id] =
                                     [is_running |-> FALSE, stopped |-> FALSE,
                                      pc |-> "created"]]
                /\ collector_instance' = id
          /\ collector_call' = "started"
    /\ UNCHANGED <<artifactVars, df_ratings, dbVars, last>>

\* collector.py:209-216 with stop_collection (lines 186-189)
stop_metrics_collector ==
    /\ \/ /\ collector_instance # 0
          /\ collectors' = [collectors EXCEPT
                               ![collector_instance].is_running = FALSE,
                               ![collector_instance].stopped = TRUE]
          /\ collector_instance' = 0
          /\ collector_call' = "stopped"
       \/ /\ collector_instance = 0
          /\ collector_call' = "nothing to stop"
          /\ UNCHANGED <<collector_instance, collectors>>
    /\ UNCHANGED <<artifactVars, df_ratings, dbVars, last>>

\* collector.py:170-175: the task's first step sets is_running, passes the
\* while test and enters collect_all_metrics.
LoopFirstStep ==
    /\ \E id \in CollectorIds :
        /\ collectors[id].pc = "created"
        /\ collectors' = [collectors EXCEPT ![id].is_running = TRUE,
                                            ![id].pc = "collecting"]
    /\ UNCHANGED <<artifactVars, df_ratings, dbVars, last,
                   collector_instance, collector_call>>

\* collector.py:175-184: the cycle ends, by returning or by an exception
\* that the handler logs, and the task sleeps for the refresh interval.
LoopCollected ==
    /\ \E id \in CollectorIds :
        /\ collectors[id].pc = "collecting"
        /\ collectors' = [collectors EXCEPT ![id].pc = "sleeping"]
    /\ UNCHANGED <<artifactVars, df_ratings, dbVars, last,
                   collector_instance, collector_call>>

\* collector.py:173: after the sleep the while test is taken again.
LoopWake ==
    /\ \E id \in CollectorIds :
        /\ collectors[id].pc = "sleeping"
        /\ collectors' = [collectors EXCEPT ![id].pc =
                             IF collectors[id].is_running THEN "collecting" ELSE "done"]
    /\ UNCHANGED <<artifactVars, df_ratings, dbVars, last,
                   collector_instance, collector_call>>

NextCollector ==
    \/ start_metrics_collector
    \/ stop_metrics_collector
    \/ LoopFirstStep
    \/ LoopCollected
    \/ LoopWake

SpecCollector == InitCollector /\ [][NextCollector]_vars

(* ============================== claims ================================ *)
Pos(c, iid) == CHOOSE i \in 1..Len(c) : c[i] = iid
KnownCount(c) == Cardinality({i \in 1..Len(c) : known_item(c[i])})
SnapshotHasKnownIn(ids) ==
    \E i \in 1..Len(df_items.rows) :
        /\ df_items.rows[i].kategori_id \in Range(ids)
        /\ df_items.rows[i].destinasi_id \in trainset.raw2inner

\* The ratings a user has stored, and the destinations they are for.
InteractionCount(user_id) == Cardinality({r \in ratings : r.user_id = user_id})
AlreadyRated(user_id) == {str(r.destinasi_id) : r \in {x \in ratings : x.user_id = user_id}}
OmitsRated(user_id, result) ==
    \A i \in 1..Len(result) : result[i].id \notin AlreadyRated(user_id)

\* The router's name for each branch of the dispatcher.
ReportedName(branch) ==
    CASE branch = "known-user" -> "personalized"
      [] branch = "cold-start" -> "cold_start"
      [] OTHER -> "fallback"

\* C1: when the artifact failed to load, every recommend call, whatever its
\* user_id, category_ids and requested_count, is answered by the Fallback
\* Ranker and by no other scorer.
C1_UnavailableModelAlwaysFallback ==
    (last.op = "recommend" /\ ~ML_MODEL_AVAILABLE) =>
        /\ last.branch = "fallback"
        /\ ~last.raised
        /\ last.result =
             get_all_items_fallback_from_db(last.cats, last.n, last.dbFails).result

C1_Witness ==
    /\ last.op = "recommend" /\ ~ML_MODEL_AVAILABLE
    /\ last.user_id # None /\ last.k = 0 /\ Truthy(last.cats)
    /\ last.branch = "fallback" /\ last.result # <<>>

\* C2: with the model available, recommend for a user whose stored
\* interactions number at least min_interactions takes the known-user
\* branch and returns at most requested_count items (requested_count below
\* the threshold).
C2_KnownUserForEnoughInteractions ==
    (/\ last.op = "recommend" /\ ML_MODEL_AVAILABLE /\ last.user_id # None
     /\ InteractionCount(last.user_id) >= last.k /\ last.n >= 0)
    => /\ last.branch = "known-user"
       /\ last.n < ReturnAllThreshold => Len(last.result) <= last.n

\* C3: model available, no user_id, non-empty category_ids and a model-known
\* item of the artifact in those categories: the cold-start scorer answers,
\* with min(requested_count, number of model-known candidates) items for a
\* requested_count in 0..999.
C3_ColdStartSelectedAndSized ==
    (/\ last.op = "recommend" /\ ML_MODEL_AVAILABLE
     /\ last.user_id = None /\ Truthy(last.cats)
     /\ SnapshotHasKnownIn(last.cats.ids)
     /\ 0 <= last.n /\ last.n < ReturnAllThreshold)
    => /\ last.branch = "cold-start"
       /\ Len(last.result) =
            Min(last.n, KnownCount(_candidates(last.cats, last.dbFails)))

C3_Witness ==
    /\ last.op = "recommend" /\ ML_MODEL_AVAILABLE
    /\ last.user_id = None /\ Truthy(last.cats)
    /\ last.branch = "cold-start"
    /\ last.n = 1
    /\ KnownCount(_candidates(last.cats, last.dbFails)) = 2
    /\ Len(last.result) = 1

\* C4: the strategy reported to the caller is the branch of the dispatcher
\* that produced the result.
C4_ReportedStrategyIsBranch ==
    (last.op = "get_recommendations" /\ last.status = 200) =>
        last.recommendation_type = ReportedName(last.branch)

\* C5: in every result of recommend the scores do not increase with the
\* position, and items of equal score keep the order they have in the
\* Candidate Provider's sequence.
C5_DescendingStable ==
    last.op = "recommend" =>
        LET c == _candidates(last.cats, last.dbFails)
            r == last.result
        IN  \A i, j \in 1..Len(r) :
                i < j =>
                    /\ ScoreGe(r[i].score, r[j].score)
                    /\ r[i].id \in Range(c) /\ r[j].id \in Range(c)
                    /\ ScoreEq(r[i].score, r[j].score)
                          => Pos(c, r[i].id) < Pos(c, r[j].id)

\* a known-user result with a tie, whose order is not the candidates' order
C5_Witness ==
    /\ last.op = "recommend" /\ last.branch = "known-user"
    /\ Len(last.result) = 3
    /\ ScoreEq(last.result[1].score, last.result[2].score)
    /\ ~ScoreEq(last.result[2].score, last.result[3].score)
    /\ <<last.result[1].id, last.result[2].id, last.result[3].id>>
         # _candidates(last.cats, last.dbFails)

\* C6: a known-user result holds no destination the user has rated.
C6_KnownUserOmitsRated ==
    (last.op = "recommend" /\ last.branch = "known-user") =>
        OmitsRated(last.user_id, last.result)

\* C7: once a user has stored ratings for at least the threshold number of
\* destinations, the next recommend call for that user (model available,
\* default threshold) takes the known-user branch and omits them.
C7_LiveRatingsDecideBranch ==
    (/\ last.op = "recommend" /\ ML_MODEL_AVAILABLE /\ last.user_id # None
     /\ last.k = DefaultMinInteractions
     /\ Cardinality(AlreadyRated(last.user_id)) >= DefaultMinInteractions)
    => /\ last.branch = "known-user"
       /\ OmitsRated(last.user_id, last.result)

\* C8: with an artifact loaded, pseudo_vector is absent exactly when no
\* model-known item of the artifact's catalog has a category in the given
\* set (so for the empty set too), and is a vector otherwise.
C8_PseudoVectorAbsentIffNoKnownItem ==
    (last.op = "pseudo_user_vector" /\ ML_MODEL_AVAILABLE) =>
        /\ ~last.raised
        /\ last.pu.isNone <=> ~SnapshotHasKnownIn(last.cats.ids)

\* categories that hold an item of the catalog, none of them known
C8_Witness ==
    /\ last.op = "pseudo_user_vector" /\ ML_MODEL_AVAILABLE
    /\ last.cats.ids # <<>>
    /\ \E i \in 1..Len(df_items.rows) :
           df_items.rows[i].kategori_id \in Range(last.cats.ids)
    /\ last.pu.isNone

C8_WitnessEmptySet ==
    /\ last.op = "pseudo_user_vector" /\ ML_MODEL_AVAILABLE
    /\ last.cats.ids = <<>> /\ last.pu.isNone

C8_WitnessVector ==
    /\ last.op = "pseudo_user_vector" /\ ML_MODEL_AVAILABLE
    /\ ~last.pu.isNone /\ last.pu.den = 2

\* C9: recommend without user_id and category_ids and with requested_count
\* at the return-all threshold returns each candidate the Candidate Provider
\* yields exactly once.
C9_ReturnAllExactlyOnce ==
    (/\ last.op = "recommend" /\ last.user_id = None /\ last.cats.isNone
     /\ last.n >= ReturnAllThreshold)
    => LET c == _candidates(CatsNone, last.dbFails)
           r == last.result
       IN  /\ Len(r) = Len(c)
           /\ \A i \in 1..Len(c) :
                  Cardinality({j \in 1..Len(r) : r[j].id = c[i]}) = 1

C9_Witness ==
    /\ last.op = "recommend" /\ last.user_id = None /\ last.cats.isNone
    /\ last.n >= ReturnAllThreshold
    /\ ML_MODEL_AVAILABLE
    /\ Len(last.result) = MaxItems

\* C10: for 0 <= n < threshold the result is the first n items of the full
\* ranked list (all of it when it is shorter); from the threshold on it is
\* the full ranked list.
C10_ResultIsPrefixOfRanked ==
    (last.op = "recommend" /\ last.n >= 0) =>
        IF last.n < ReturnAllThreshold
        THEN /\ Len(last.result) = Min(last.n, Len(last.ranked))
             /\ \A i \in 1..Len(last.result) : last.result[i] = last.ranked[i]
        ELSE last.result = last.ranked

C10_Witness ==
    /\ last.op = "recommend" /\ last.branch = "cold-start"
    /\ last.n = 2 /\ Len(last.ranked) = 3 /\ Len(last.result) = 2

(* C11: recommend called with a negative requested count is rejected with an
   error before any candidate fetch or scoring, and returns no ranked list. *)
C11_NegativeCountRejected ==
    (last.op = "recommend" /\ last.n < 0) =>
        (last.raised /\ last.ranked = <<>> /\ last.result = <<>>)

\* The live table's answer to the restriction of the last call, as str ids.
LiveIds ==
    LET data == SelectDestinasi(last.cats)
    IN  [i \in 1..Len(data) |-> str(data[i].destinasi_id)]

\* The positions of the snapshot's rows that match the last call's restriction.
SnapshotMatches ==
    {i \in 1..Len(df_items.rows) :
        last.cats.isNone \/ df_items.rows[i].kategori_id \in Range(last.cats.ids)}

LiveUnavailable == supabase = None \/ last.dbFails

(* C12: whenever the live catalog query succeeds, zero matching rows
   included, the Candidate Provider returns exactly the live result in the
   live source's order. *)
C12_LiveResultWhenLiveSucceeds ==
    (last.op = "_candidates" /\ ~LiveUnavailable) =>
        (~last.raised /\ last.value = LiveIds)

(* C13: when the live source fails or is not configured and the artifact is
   loaded, the Candidate Provider returns the snapshot's items that match
   the restriction (all of them without one), in snapshot order. *)
C13_SnapshotWhenLiveUnavailable ==
    (last.op = "_candidates" /\ LiveUnavailable /\ ML_MODEL_AVAILABLE) =>
        /\ ~last.raised
        /\ Len(last.value) = Cardinality(SnapshotMatches)
        /\ \A i \in SnapshotMatches :
               \E p \in 1..Len(last.value) :
                   last.value[p] = df_items.rows[i].destinasi_id
        /\ \A p, q \in 1..Len(last.value) :
               p < q =>
                   \E i, j \in SnapshotMatches :
                       /\ i < j
                       /\ last.value[p] = df_items.rows[i].destinasi_id
                       /\ last.value[q] = df_items.rows[j].destinasi_id

\* a restriction that keeps two rows of a three-row snapshot and drops one
C13_Witness ==
    /\ last.op = "_candidates" /\ LiveUnavailable /\ ML_MODEL_AVAILABLE
    /\ ~last.cats.isNone /\ Len(df_items.rows) = 3 /\ Len(last.value) = 2

(* C14: the Candidate Provider never raises, whatever the states of the live
   source and of the artifact, and returns the empty sequence when neither
   source is available. *)
C14_CandidatesNeverRaise ==
    last.op = "_candidates" =>
        /\ ~last.raised
        /\ (LiveUnavailable /\ ~ML_MODEL_AVAILABLE) => last.value = <<>>

\* the live query raised and there is no artifact
C14_Witness ==
    /\ last.op = "_candidates" /\ last.dbFails /\ ~ML_MODEL_AVAILABLE
    /\ ~last.raised /\ last.value = <<>>

(* C15: a recommendation request with valid inputs always completes with a
   (possibly empty) ranked list; a failing or unconfigured live source, an
   unavailable model or unknown candidates never reach the caller as an
   error. *)
C15_RequestNeverFailsOnUnavailability ==
    (last.op \in {"recommend", "get_recommendations"} /\ last.n >= 0) =>
        (~last.raised /\ last.status # 500)

(* C16: when the known-user or the cold-start path yields no items the
   dispatcher uses the Fallback Ranker, so recommend returns an empty list
   only when the Candidate Provider has no candidates. *)
C16_EmptyOnlyWithoutCandidates ==
    (last.op = "recommend" /\ last.n >= 1 /\ last.result = <<>>) =>
        CandidatesOutcome(last.cats, last.dbFails).value = <<>>

(* C18: after the load at process start no recommend call, under any
   strategy and in any sequence of requests, changes the model artifact,
   the catalog snapshot, the global mean or the availability flag. *)
C18_ArtifactReadOnly ==
    [][last'.op = "recommend" =>
          /\ ML_MODEL_AVAILABLE' = ML_MODEL_AVAILABLE
          /\ df_items' = df_items
          /\ trainset' = trainset
          /\ algo' = algo
          /\ GLOBAL_MEAN' = GLOBAL_MEAN]_vars

\* a call with the artifact loaded has ended in the fallback
C18_Witness ==
    /\ last.op = "recommend" /\ last.branch = "fallback"
    /\ ML_MODEL_AVAILABLE /\ ~df_items.isNone /\ last.result # <<>>

(* C19: the Fallback Ranker never fails: for every restriction, requested
   count, live-source state and model state it returns a list, and the
   list is empty when the candidate set is empty. *)
C19_FallbackNeverFails ==
    last.op = "get_all_items_fallback_from_db" =>
        /\ ~last.raised
        /\ CandidatesOutcome(last.cats, last.dbFails).value = <<>> =>
               last.result = <<>>

\* the live query raised, there is no artifact, and a list was asked for
C19_Witness ==
    /\ last.op = "get_all_items_fallback_from_db"
    /\ last.dbFails /\ ~ML_MODEL_AVAILABLE /\ last.n >= 1
    /\ ~last.raised /\ last.result = <<>>

\* The branch the decision order gives for the facts of the last call.
ExpectedBranch ==
    IF ~ML_MODEL_AVAILABLE THEN "fallback"
    ELSE IF last.user_id # None /\ InteractionCount(last.user_id) >= last.k
    THEN "known-user"
    ELSE IF Truthy(last.cats) /\ SnapshotHasKnownIn(last.cats.ids)
    THEN "cold-start"
    ELSE "fallback"

(* C20: the branch recommend takes is determined by model availability,
   whether a user is given with an interaction count of at least the
   threshold, whether the category list is non-empty and whether the
   pseudo-vector exists, first match wins, whatever the requested count and
   the live catalog are. *)
C20_BranchFromFacts ==
    (last.op \in {"recommend", "get_recommendations"} /\ last.branch # "none") =>
        last.branch = ExpectedBranch

\* The source that supplied the candidates of the last call: the live table
\* when its query answered with rows, the snapshot otherwise.
SuppliedByLive == ~LiveUnavailable /\ SelectDestinasi(last.cats) # <<>>

\* The category of item iid according to that source is in the restriction.
InRestrictionBySource(iid) ==
    IF SuppliedByLive
    THEN \E i \in 1..Len(destinasi) :
             /\ str(destinasi[i].destinasi_id) = iid
             /\ destinasi[i].kategori_id \in Range(last.cats.ids)
    ELSE /\ ~df_items.isNone
         /\ \E i \in 1..Len(df_items.rows) :
                /\ df_items.rows[i].destinasi_id = iid
                /\ df_items.rows[i].kategori_id \in Range(last.cats.ids)

(* C21: whenever recommend is called with a non-empty category list, every
   returned item, under any strategy, has a category of that list according
   to the catalog source (live or snapshot) that supplied the candidates. *)
C21_ResultWithinCategories ==
    (last.op = "recommend" /\ Truthy(last.cats)) =>
        \A p \in 1..Len(last.result) : InRestrictionBySource(last.result[p].id)

\* a restricted call returned an item while the live table that supplied it
\* also holds an item of another category
C21_Witness ==
    /\ last.op = "recommend" /\ Truthy(last.cats) /\ SuppliedByLive
    /\ last.result # <<>>
    /\ \E i \in 1..Len(destinasi) :
           destinasi[i].kategori_id \notin Range(last.cats.ids)

(* C22: with the model available, no qualifying known user and a non-empty
   category list for which the pseudo-vector is absent, recommend falls
   through to the Fallback Ranker restricted to those categories and does
   not score with the cold-start scorer. *)
C22_AbsentVectorFallsThrough ==
    (/\ last.op = "recommend" /\ ML_MODEL_AVAILABLE
     /\ (last.user_id = None \/ n_inter(last.user_id) < last.k)
     /\ Truthy(last.cats)
     /\ ~SnapshotHasKnownIn(last.cats.ids))
    => /\ last.branch = "fallback"
       /\ last.result = FallbackOutcome(last.cats, last.n, last.dbFails).result
       /\ \A p \in 1..Len(last.result) : InRestrictionBySource(last.result[p].id)

\* the categories hold a live item, none of them known to the snapshot
C22_Witness ==
    /\ last.op = "recommend" /\ ML_MODEL_AVAILABLE
    /\ last.user_id = None /\ Truthy(last.cats)
    /\ ~SnapshotHasKnownIn(last.cats.ids)
    /\ last.branch = "fallback" /\ last.result # <<>>

\* The positions of the snapshot rows of the last call's categories that the
\* model knows.
KnownInCategories ==
    {i \in 1..Len(df_items.rows) :
        /\ df_items.rows[i].kategori_id \in Range(last.cats.ids)
        /\ df_items.rows[i].destinasi_id \in trainset.raw2inner}

RECURSIVE ComponentSum(_, _)
\* the sum of component c of the latent vectors of the rows at positions S
ComponentSum(S, c) ==
    IF S = {} THEN 0
    ELSE LET i == CHOOSE x \in S : TRUE
         IN  algo.qi[df_items.rows[i].destinasi_id][c] + ComponentSum(S \ {i}, c)

(* C23: when present, the pseudo-user vector is the component-wise
   arithmetic mean of the latent vectors of exactly the model-known items
   whose category is in the given set, each counted once. *)
C23_PseudoVectorIsMean ==
    (last.op = "pseudo_user_vector" /\ ~last.raised /\ ~last.pu.isNone) =>
        /\ last.pu.den = Cardinality(KnownInCategories)
        /\ last.pu.num = <<ComponentSum(KnownInCategories, 1),
                           ComponentSum(KnownInCategories, 2)>>

\* two known items are averaged; the third row of the snapshot, unknown to
\* the model, is left out
C23_Witness ==
    /\ last.op = "pseudo_user_vector" /\ ~last.pu.isNone
    /\ Cardinality(KnownInCategories) = 2
    /\ Len(df_items.rows) = 3
    /\ Cardinality(trainset.raw2inner) = 2

\* The candidates of the last call, as the Candidate Provider returns them.
LastCandidates == CandidatesOutcome(last.cats, last.dbFails).value

\* global_mean + item_bias + dot(item_latent_vector, pu) for the pseudo-vector
\* num / den, over the denominator den.
ColdStartScore(iid, pu_vec) ==
    Score(pu_vec.den * GLOBAL_MEAN + pu_vec.den * algo.bi[iid]
            + algo.qi[iid][1] * pu_vec.num[1] + algo.qi[iid][2] * pu_vec.num[2],
          pu_vec.den)

(* C24: every item of a cold-start result carries the score global_mean +
   item_bias + dot(item_latent_vector, pseudo_vector), with no user-bias
   term, and before truncation the result holds exactly the candidates that
   are known to the model and not in the exclude set. *)
C24_ColdStartScores ==
    (last.op = "score_items_for_pseudo_user" /\ ~last.raised) =>
        /\ \A p \in 1..Len(last.ranked) :
               /\ \E c \in 1..Len(LastCandidates) : LastCandidates[c] = last.ranked[p].id
               /\ known_item(last.ranked[p].id)
               /\ last.ranked[p].id \notin last.exclude
               /\ ScoreEq(last.ranked[p].score,
                          ColdStartScore(last.ranked[p].id, last.pu))
        /\ \A c \in 1..Len(LastCandidates) :
               (known_item(LastCandidates[c]) /\ LastCandidates[c] \notin last.exclude)
                   => \E p \in 1..Len(last.ranked) : last.ranked[p].id = LastCandidates[c]
        /\ \A p, q \in 1..Len(last.ranked) :
               last.ranked[p].id = last.ranked[q].id => p = q
        /\ \A p \in 1..Len(last.result) :
               \E q \in 1..Len(last.ranked) : last.result[p] = last.ranked[q]

\* a candidate is excluded and two others are scored, one with an item bias
C24_Witness ==
    /\ last.op = "score_items_for_pseudo_user" /\ ~last.raised
    /\ last.exclude # {} /\ \E c \in 1..Len(LastCandidates) : LastCandidates[c] \in last.exclude
    /\ Len(last.ranked) = 2 /\ last.pu.den = 2
    /\ \E p \in 1..2 : algo.bi[last.ranked[p].id] # 0

(* C25: candidates that are not in the trained model's raw-id mapping are
   skipped without error by the Known-User Scorer and by the Cold-Start
   Scorer: every item of their results is known to the model and an unknown
   candidate never makes the call raise. *)
C25_UnknownCandidatesSkipped ==
    (last.op \in {"topn_for_user", "score_items_for_pseudo_user"}) =>
        /\ ~last.raised
        /\ \A p \in 1..Len(last.result) :
               /\ ML_MODEL_AVAILABLE
               /\ last.result[p].id \in trainset.raw2inner

\* the cold-start scorer met an unknown candidate and returned a known one
C25_Witness ==
    /\ last.op = "score_items_for_pseudo_user" /\ ~last.raised
    /\ last.result # <<>>
    /\ \E c \in 1..Len(LastCandidates) : ~known_item(LastCandidates[c])

\* the known-user scorer met an unknown candidate and returned a known one
C25_WitnessKnownUser ==
    /\ last.op = "topn_for_user" /\ last.result # <<>>
    /\ \E c \in 1..Len(LastCandidates) : ~known_item(LastCandidates[c])

\* the constant the fallback score is meant to stop at (lines 110, 140)
FallbackFloor == Score(1, 1)

(* C26: in a Fallback Ranker result over a candidate list of any length,
   also one longer than the cutoff index, the first candidate has the
   highest score, scores decrease with position down to a floor constant
   and never go below it, and the output order is the Candidate Provider's
   order. *)
C26_FallbackDecaysToFloorInOrder ==
    (/\ last.op \in {"get_all_items_fallback", "get_all_items_fallback_from_db"}
     /\ ~last.raised /\ last.n >= ReturnAllThreshold) =>
        /\ Len(last.result) = Len(LastCandidates)
        /\ \A p \in 1..Len(last.result) :
               /\ last.result[p].id = LastCandidates[p]
               /\ ScoreGe(last.result[p].score, FallbackFloor)
               /\ ScoreGe(last.result[1].score, last.result[p].score)
        /\ \A p, q \in 1..Len(last.result) :
               p < q => ScoreGe(last.result[p].score, last.result[q].score)

(* C27: save_user_preferences leaves the user's stored preference set
   unchanged whenever it answers with an error; the stored set is replaced
   only by a successful call. *)
C27_ErrorLeavesPreferences ==
    [][(last'.op = "save_user_preferences" /\ last'.status # 200)
          => preference' = preference]_vars

(* C28: after stop_metrics_collector returns, the collection loop started
   by the preceding start eventually exits and starts no collection cycle
   beyond one already in progress, under every interleaving of the task
   with start and stop, also when stop comes before the task's first step.
   Stated here is the part about cycles: the task of a stopped collector
   never enters a collection cycle. *)
C28_StoppedLoopStartsNoCycle ==
    [][\A id \in CollectorIds :
          (collectors[id].stopped /\ collectors[id].pc # "collecting")
              => collectors'[id].pc # "collecting"]_vars

\* The collectors that are constructed and not stopped.
LiveCollectors ==
    {id \in CollectorIds : collectors[id].pc # "unborn" /\ ~collectors[id].stopped}

(* C29: start_metrics_collector is idempotent while a collector is
   registered: start calls without a stop in between create one
   MetricsCollector and one loop task. *)
C29_StartIdempotent ==
    /\ Cardinality(LiveCollectors) <= 1
    /\ collector_instance # 0 => LiveCollectors = {collector_instance}
    /\ collector_instance = 0 => LiveCollectors = {}

\* a second start found the collector of the first one registered
C29_Witness ==
    /\ collector_call = "already running"
    /\ collector_instance # 0
    /\ LiveCollectors = {collector_instance}

\* The rows of the table t for a (user, destination) pair.
RowsFor(t, user_id, destination_id) ==
    {r \in t : r.user_id = user_id /\ r.destinasi_id = destination_id}

(* C30: after any sequence of submit_review calls with valid ratings the
   ratings store holds at most one row per (user, destination) pair, and
   that row carries the rating of the last successful call for the pair:
   a successful call leaves exactly one row for its pair, with its rating,
   and no call changes the rows of another pair or, when it is not
   successful, any row. *)
C30_OneRowWithLastRating ==
    [][last'.op = "submit_review" =>
          /\ \A u \in Users, d \in Items :
                 Cardinality(RowsFor(ratings', u, d)) <= 1
          /\ last'.status = 200 =>
                 /\ RowsFor(ratings', last'.user_id, last'.dest) =
                        {[user_id |-> last'.user_id, destinasi_id |-> last'.dest,
                          rating |-> last'.rating]}
                 /\ \A u \in Users, d \in Items :
                        (u # last'.user_id \/ d # last'.dest) =>
                            RowsFor(ratings', u, d) = RowsFor(ratings, u, d)
          /\ last'.status # 200 => ratings' = ratings]_vars

\* every destination is rated, the last call gave 5 and another pair holds 1
C30_Witness ==
    /\ last.op = "submit_review" /\ last.status = 200 /\ last.rating = 5
    /\ Cardinality(ratings) = MaxItems
    /\ \E r \in ratings : r.rating = 1

====
